---- MODULE Spec2Model ----
(***************************************************************************)
(* A model of the hecto text viewer: src/src/editor.rs (the Editor: its    *)
(* run loop, key interpretation, cursor motion, scrolling and rendering)   *)
(* and src/src/document.rs (the Document).  Row and Terminal are used by   *)
(* the editor but their files are not part of the sources at hand; they    *)
(* are modelled from the specification's description of Line and of the    *)
(* terminal collaborator.                                                  *)
(***************************************************************************)
EXTENDS Integers, Sequences, FiniteSets, TLC

VARIABLES
    args,             \* env::args(): "none" | "unreadable" | "readable"
    document,         \* Document.rows: a sequence of rows, each a sequence of characters
    file_name,        \* Document.file_name: "None" | "Some"
    terminal,         \* Terminal.size(): [width, height], fixed at construction
    should_quit,      \* Editor.should_quit
    cursor_position,  \* Editor.cursor_position: [x, y]
    offset,           \* Editor.offset: [x, y]
    pc,               \* position in Editor::run
    pressed_key,      \* the key the last process_keypress read ("None" before the first)
    entry,            \* cursor_position and offset at entry to the last process_keypress
    frame,            \* what the last refresh_screen (or die) put on the screen
    frames_in_quit,   \* number of frames rendered while should_quit was set
    probe             \* the last direct call of Row::render or Document::open (CallSpec)

vars == <<args, document, file_name, terminal, should_quit, cursor_position,
          offset, pc, pressed_key, entry, frame, frames_in_quit, probe>>

---------------------------------------------------------------------------
(* Bounds of the model *)

\* longest file contents, in characters
MaxContents == 5
\* widest terminal
MaxWidth == 2
\* tallest terminal (rows left for the text)
MaxHeight == 3
\* longest file contents of FrameSpec, which draws them from three characters
MaxFrameContents == 3
\* longest file contents opened directly in CallSpec
MaxCallContents == 4
\* longest line rendered directly in CallSpec
MaxCallLine == 3
\* largest start and end column passed to a direct render in CallSpec
MaxCallColumn == 4

---------------------------------------------------------------------------
(* Values *)

Chars == {"a", "\n"}

Contents == UNION {[1..n -> Chars] : n \in 0..MaxContents}

\* file contents with two distinguishable letters
FrameChars == {"a", "b", "\n"}

FrameContents == UNION {[1..n -> FrameChars] : n \in 0..MaxFrameContents}

\* file contents with both line terminators
CallChars == {"a", "b", "\n", "\r"}

CallContents == UNION {[1..n -> CallChars] : n \in 0..MaxCallContents}

CallLines == UNION {[1..n -> {"a", "b"}] : n \in 0..MaxCallLine}

MotionKeys == {"Up", "Left", "Down", "Right", "PageUp", "PageDown", "End", "Home"}

\* "CtrlQ" is Key::Ctrl('q'); "Other" is any key matched by the `_` arm
Keys == MotionKeys \cup {"CtrlQ", "Other"}

Position(px, py) == [x |-> px, y |-> py]

PositionDefault == Position(0, 0)

Min(a, b) == IF a < b THEN a ELSE b

saturating_sub(a, b) == IF a > b THEN a - b ELSE 0

\* usize::saturating_add; the model's values stay far below usize::MAX
saturating_add(a, b) == a + b

---------------------------------------------------------------------------
(* Row (modelled from the specification's Line) *)

RowFrom(line) == line

RowLen(row) == Len(row)

\* RowRender taking the end column as inclusive
RowRenderInclusiveEnd(row, start, end) ==
    LET e == Min(end + 1, Len(row))
        s == Min(start, e)
    IN  SubSeq(row, s + 1, e)

RowRender(row, start, end) ==
    LET e == Min(end, Len(row))
        s == Min(start, e)
    IN  SubSeq(row, s + 1, e)

---------------------------------------------------------------------------
(* Document *)

\* index of the first "\n" of s, or Len(s) + 1 when there is none
RECURSIVE FirstNewline(_, _)
FirstNewline(s, i) ==
    IF i > Len(s) THEN i
    ELSE IF s[i] = "\n" THEN i
    ELSE FirstNewline(s, i + 1)

\* a line of str::lines() that ended with "\n": a "\r" before the "\n" is dropped too
StripCr(line) ==
    IF line # <<>> /\ line[Len(line)] = "\r" THEN SubSeq(line, 1, Len(line) - 1) ELSE line

\* str::lines(): split on "\n" or "\r\n"; a final newline opens no further line
RECURSIVE Lines(_)
Lines(s) ==
    IF s = <<>> THEN <<>>
    ELSE LET n == FirstNewline(s, 1)
         IN  <<IF n <= Len(s) THEN StripCr(SubSeq(s, 1, n - 1)) ELSE s>>
                 \o Lines(SubSeq(s, n + 1, Len(s)))

\* PushRows putting each new row in front
RECURSIVE PushRowsInFront(_, _)
PushRowsInFront(rows, lines) ==
    IF lines = <<>> THEN rows
    ELSE PushRowsInFront(<<RowFrom(Head(lines))>> \o rows, Tail(lines))

RECURSIVE PushRows(_, _)
PushRows(rows, lines) ==
    IF lines = <<>> THEN rows
    ELSE PushRows(Append(rows, RowFrom(Head(lines))), Tail(lines))

\* Document::open on a file whose contents were read
DocumentOpen(contents) ==
    [rows |-> PushRows(<<>>, Lines(contents)), file_name |-> "Some"]

DocumentDefault == [rows |-> <<>>, file_name |-> "None"]

\* the results of fs::read_to_string
ReadOk(contents) == [ok |-> TRUE, contents |-> contents]

ReadError == [ok |-> FALSE]

\* Document::open: the `?` returns the read's error, else Ok(the document)
DocumentOpenResult(read) ==
    IF ~read.ok THEN [ok |-> FALSE]
    ELSE [ok |-> TRUE, value |-> DocumentOpen(read.contents)]

\* Result::unwrap_or_default keeping what a failed open left behind
unwrap_keeping_name(result) ==
    IF result.ok THEN result.value ELSE [rows |-> <<>>, file_name |-> "Some"]

\* Result::unwrap_or_default
unwrap_or_default(result) ==
    IF result.ok THEN result.value ELSE DocumentDefault

DocumentRow(index) ==
    IF index < Len(document) THEN <<document[index + 1]>> ELSE <<>>

DocumentIsEmpty == document = <<>>

DocumentLen == Len(document)

---------------------------------------------------------------------------
(* Editor: cursor motion *)

\* the `if let Some(row) = self.document.row(y) { row.len() } else { 0 }` of move_cursor
RowWidth(y) ==
    IF DocumentRow(y) # <<>> THEN RowLen(DocumentRow(y)[1]) ELSE 0

\* MoveRight stopping at the end of the last line (`y < height - 1`)
MoveRightStopsAtLastLine(p) ==
    IF p.x < RowWidth(p.y) THEN Position(p.x + 1, p.y)
    ELSE IF p.y + 1 < DocumentLen THEN Position(0, p.y + 1)
    ELSE p

\* MoveRight without the `x = 0` of the wrap
MoveRightKeepsColumn(p) ==
    IF p.x < RowWidth(p.y) THEN Position(p.x + 1, p.y)
    ELSE IF p.y < DocumentLen THEN Position(p.x, p.y + 1)
    ELSE p

MoveRight(p) ==
    IF p.x < RowWidth(p.y) THEN Position(p.x + 1, p.y)
    ELSE IF p.y < DocumentLen THEN Position(0, p.y + 1)
    ELSE p

\* MoveLeft wrapping at line 0 as well (the `y > 0` test dropped, y saturating)
MoveLeftWrapsAtOrigin(p) ==
    IF p.x > 0 THEN Position(p.x - 1, p.y)
    ELSE Position(RowWidth(saturating_sub(p.y, 1)), saturating_sub(p.y, 1))

\* MoveLeft wrapping to the start of the previous line
MoveLeftWrapsToStart(p) ==
    IF p.x > 0 THEN Position(p.x - 1, p.y)
    ELSE IF p.y > 0 THEN Position(0, p.y - 1)
    ELSE p

MoveLeft(p) ==
    IF p.x > 0 THEN Position(p.x - 1, p.y)
    ELSE IF p.y > 0 THEN Position(RowWidth(p.y - 1), p.y - 1)
    ELSE p

\* MoveDown without the `y < height` test
MoveDownUnbounded(p) == Position(p.x, saturating_add(p.y, 1))

MoveDown(p) ==
    IF p.y < DocumentLen THEN Position(p.x, saturating_add(p.y, 1)) ELSE p

MoveUp(p) == Position(p.x, saturating_sub(p.y, 1))

MovePageUp(p) ==
    Position(p.x, IF p.y > terminal.height THEN p.y - terminal.height ELSE 0)

\* MovePageDown without the bound at the document's length
MovePageDownUnbounded(p) == Position(p.x, p.y + terminal.height)

MovePageDown(p) ==
    Position(p.x, IF saturating_add(p.y, terminal.height) < DocumentLen
                  THEN p.y + terminal.height
                  ELSE DocumentLen)

MoveHome(p) == Position(0, p.y)

MoveEnd(p) == Position(RowWidth(p.y), p.y)

\* move_cursor without its final clamp
ClampXOmitted(p) == p

\* the clamp that ends move_cursor
ClampX(p) == IF p.x > RowWidth(p.y) THEN Position(RowWidth(p.y), p.y) ELSE p

move_cursor(p, key) ==
    ClampX(CASE key = "Right"    -> MoveRight(p)
             [] key = "Left"     -> MoveLeft(p)
             [] key = "Down"     -> MoveDown(p)
             [] key = "Up"       -> MoveUp(p)
             [] key = "PageUp"   -> MovePageUp(p)
             [] key = "PageDown" -> MovePageDown(p)
             [] key = "Home"     -> MoveHome(p)
             [] key = "End"      -> MoveEnd(p)
             [] OTHER            -> p)

---------------------------------------------------------------------------
(* Editor: scrolling *)

\* ScrollAxis without the `+ 1`
ScrollAxisNoPlusOne(c, o, size) ==
    IF c < o THEN c
    ELSE IF c >= saturating_add(o, size) THEN saturating_sub(c, size)
    ELSE o

\* ScrollAxis putting the cursor on the first visible row when it scrolls down
ScrollAxisToTop(c, o, size) ==
    IF c < o THEN c
    ELSE IF c >= saturating_add(o, size) THEN c
    ELSE o

\* ScrollAxis comparing the cursor with the window's size alone (`y >= height`)
ScrollAxisNoOffset(c, o, size) ==
    IF c < o THEN c
    ELSE IF c >= size THEN saturating_add(saturating_sub(c, size), 1)
    ELSE o

\* one axis of scroll: c the cursor's coordinate, o the offset's, size the window's
ScrollAxis(c, o, size) ==
    IF c < o THEN c
    ELSE IF c >= saturating_add(o, size) THEN saturating_add(saturating_sub(c, size), 1)
    ELSE o

scroll(cur, off) ==
    Position(ScrollAxis(cur.x, off.x, terminal.width),
             ScrollAxis(cur.y, off.y, terminal.height))

---------------------------------------------------------------------------
(* Editor: rendering *)

draw_row(row) ==
    [kind |-> "row", text |-> RowRender(row, offset.x, offset.x + terminal.width)]

draw_welcome_message == [kind |-> "welcome", text |-> <<>>]

\* draw_rows looking rows up without the vertical offset
draw_rows_without_offset ==
    [r \in 1..terminal.height |->
        IF DocumentRow(r - 1) # <<>>
        THEN draw_row(DocumentRow(r - 1)[1])
        ELSE IF (r - 1) = terminal.height \div 3 /\ DocumentIsEmpty
        THEN draw_welcome_message
        ELSE [kind |-> "tilde", text |-> <<>>]]

\* draw_rows without the `self.document.is_empty()` test of the banner
draw_rows_banner_always ==
    [r \in 1..terminal.height |->
        IF DocumentRow((r - 1) + offset.y) # <<>>
        THEN draw_row(DocumentRow((r - 1) + offset.y)[1])
        ELSE IF (r - 1) = terminal.height \div 3
        THEN draw_welcome_message
        ELSE [kind |-> "tilde", text |-> <<>>]]

draw_rows ==
    [r \in 1..terminal.height |->
        IF DocumentRow((r - 1) + offset.y) # <<>>
        THEN draw_row(DocumentRow((r - 1) + offset.y)[1])
        ELSE IF (r - 1) = terminal.height \div 3 /\ DocumentIsEmpty
        THEN draw_welcome_message
        ELSE [kind |-> "tilde", text |-> <<>>]]

NoFrame ==
    [cleared |-> FALSE, farewell |-> FALSE, rows |-> <<>>, status_bar |-> FALSE,
     cursor |-> PositionDefault]

\* refresh_screen placing the physical cursor at the document coordinates
RefreshedFrameDocumentCursor ==
    IF should_quit
    THEN [cleared |-> TRUE, farewell |-> TRUE, rows |-> <<>>, status_bar |-> FALSE,
          cursor |-> PositionDefault]
    ELSE [cleared |-> FALSE, farewell |-> FALSE, rows |-> draw_rows, status_bar |-> TRUE,
          cursor |-> cursor_position]

\* what refresh_screen prints before the flush
RefreshedFrame ==
    IF should_quit
    THEN [cleared |-> TRUE, farewell |-> TRUE, rows |-> <<>>, status_bar |-> FALSE,
          cursor |-> PositionDefault]
    ELSE [cleared |-> FALSE, farewell |-> FALSE, rows |-> draw_rows, status_bar |-> TRUE,
          cursor |-> Position(saturating_sub(cursor_position.x, offset.x),
                              saturating_sub(cursor_position.y, offset.y))]

\* die without its Terminal::clear_screen()
DiedFrameNotCleared(f) == f

\* die: Terminal::clear_screen(), then panic
DiedFrame(f) == [f EXCEPT !.cleared = TRUE, !.rows = <<>>, !.status_bar = FALSE]

---------------------------------------------------------------------------
(* Editor::default *)

TerminalSizes == [width : 0..MaxWidth, height : 0..MaxHeight]

NoProbe == [op |-> "none"]

EditorDefault(a, doc, size) ==
    /\ args = a
    /\ document = doc.rows
    /\ file_name = doc.file_name
    /\ terminal = size
    /\ should_quit = FALSE
    /\ cursor_position = PositionDefault
    /\ offset = PositionDefault
    /\ pc = "refresh_screen"
    /\ pressed_key = "None"
    /\ entry = [cursor |-> PositionDefault, offset |-> PositionDefault]
    /\ frame = NoFrame
    /\ frames_in_quit = 0
    /\ probe = NoProbe

\* Editor::default over the files in `files`
InitOver(files) ==
    \E size \in TerminalSizes :
        \/ EditorDefault("none", DocumentDefault, size)
        \/ EditorDefault("unreadable", unwrap_or_default(DocumentOpenResult(ReadError)), size)
        \/ \E contents \in files :
               EditorDefault("readable", unwrap_or_default(DocumentOpenResult(ReadOk(contents))), size)

Init == InitOver(Contents)

---------------------------------------------------------------------------
(* Editor::run *)

\* run without its `if self.should_quit { break; }`
AfterRefreshNoBreak(flushed) ==
    IF ~flushed THEN "died" ELSE "process_keypress"

\* where run goes after refresh_screen returned: die, break, or on to process_keypress
AfterRefresh(flushed) ==
    IF ~flushed THEN "died"
    ELSE IF should_quit THEN "exited"
    ELSE "process_keypress"

\* one `self.refresh_screen()` of the loop, with the `die` or `break` that follows it
refresh_screen ==
    /\ pc = "refresh_screen"
    /\ \E flushed \in BOOLEAN :
        /\ frame' = IF flushed THEN RefreshedFrame ELSE DiedFrame(RefreshedFrame)
        /\ pc' = AfterRefresh(flushed)
    /\ frames_in_quit' = IF should_quit THEN frames_in_quit + 1 ELSE frames_in_quit
    /\ UNCHANGED <<args, document, file_name, terminal, should_quit, cursor_position,
                   offset, pressed_key, entry, probe>>

\* the cursor after the match of process_keypress
Interpreted(key) ==
    IF key \in MotionKeys THEN move_cursor(cursor_position, key) ELSE cursor_position

\* the quit arm matching every key that is no motion key
QuitAfterAnyOther(key) == IF key \notin MotionKeys THEN TRUE ELSE should_quit

\* should_quit after the match of process_keypress
QuitAfter(key) == IF key = "CtrlQ" THEN TRUE ELSE should_quit

\* one `self.process_keypress()` of the loop whose read_key returned `key`
process_keypress ==
    /\ pc = "process_keypress"
    /\ \E key \in Keys :
        /\ pressed_key' = key
        /\ should_quit' = QuitAfter(key)
        /\ cursor_position' = Interpreted(key)
        /\ offset' = scroll(Interpreted(key), offset)
    /\ entry' = [cursor |-> cursor_position, offset |-> offset]
    /\ pc' = "refresh_screen"
    /\ UNCHANGED <<args, document, file_name, terminal, frame, frames_in_quit, probe>>

\* `self.process_keypress()` whose read_key returned an error: die
process_keypress_error ==
    /\ pc = "process_keypress"
    /\ frame' = DiedFrame(frame)
    /\ pc' = "died"
    /\ UNCHANGED <<args, document, file_name, terminal, should_quit, cursor_position,
                   offset, pressed_key, entry, frames_in_quit, probe>>

Next ==
    \/ refresh_screen
    \/ process_keypress
    \/ process_keypress_error

Spec == Init /\ [][Next]_vars

\* the editor over files of two distinguishable letters
FrameInit == InitOver(FrameContents)

FrameSpec == FrameInit /\ [][Next]_vars

---------------------------------------------------------------------------
(* Row::render and Document::open called directly *)

\* one call per behaviour, made on a freshly constructed editor
CallInit == EditorDefault("none", DocumentDefault, [width |-> 0, height |-> 0])

call_render ==
    /\ probe = NoProbe
    /\ \E line \in CallLines, start \in 0..MaxCallColumn, end \in 0..MaxCallColumn :
           probe' = [op |-> "render", line |-> RowFrom(line), start |-> start, end |-> end,
                     out |-> RowRender(RowFrom(line), start, end)]
    /\ UNCHANGED <<args, document, file_name, terminal, should_quit, cursor_position,
                   offset, pc, pressed_key, entry, frame, frames_in_quit>>

call_open ==
    /\ probe = NoProbe
    /\ \E contents \in CallContents :
           /\ probe' = [op |-> "open", contents |-> contents]
           /\ document' = DocumentOpen(contents).rows
           /\ file_name' = DocumentOpen(contents).file_name
    /\ UNCHANGED <<args, terminal, should_quit, cursor_position,
                   offset, pc, pressed_key, entry, frame, frames_in_quit>>

CallNext ==
    \/ call_render
    \/ call_open

CallSpec == CallInit /\ [][CallNext]_vars

---------------------------------------------------------------------------
(* Properties *)

\* a key has been read and interpreted, and scroll has run on the result
KeyProcessed == pressed_key # "None"

\* the cursor's coordinate c lies in the window of `size` cells that starts at o
InWindow(c, o, size) == o <= c /\ c < o + size

LastLine == DocumentLen - 1

\* C1: whenever scroll has run and the terminal is at least 1x1, the cursor lies
\* inside the window: offset.y <= cursor.y < offset.y + height and
\* offset.x <= cursor.x < offset.x + width.
C1_ScrollInvariant ==
    (KeyProcessed /\ terminal.width >= 1 /\ terminal.height >= 1) =>
        /\ InWindow(cursor_position.y, offset.y, terminal.height)
        /\ InWindow(cursor_position.x, offset.x, terminal.width)

\* scroll has moved the window on both axes at once
C1_Witness ==
    /\ KeyProcessed /\ terminal.width >= 1 /\ terminal.height >= 1
    /\ offset.x > 0 /\ offset.y > 0
    /\ offset.x # entry.offset.x /\ offset.y # entry.offset.y

\* C2: in every reachable state the cursor is valid: cursor.y <= document.len()
\* and cursor.x <= width(cursor.y), with width 0 past the last line.
C2_CursorValid ==
    /\ cursor_position.y <= DocumentLen
    /\ cursor_position.x <= RowWidth(cursor_position.y)

\* a vertical motion has landed on a shorter line and the column was clamped
C2_Witness ==
    /\ pressed_key \in {"Up", "Down", "PageUp", "PageDown"}
    /\ cursor_position.y # entry.cursor.y
    /\ entry.cursor.x > RowWidth(cursor_position.y)
    /\ cursor_position.x = RowWidth(cursor_position.y)

\* Right was pressed with the cursor at the end of the last line of a non-empty document
RightAtEndOfLastLine ==
    /\ pressed_key = "Right"
    /\ document # <<>>
    /\ entry.cursor = Position(RowWidth(LastLine), LastLine)

\* C3 as stated: Right at the end of the last line of a non-empty document leaves
\* the cursor where it was.
C3_RightNoOpAtLastLineEnd ==
    RightAtEndOfLastLine => cursor_position = entry.cursor

\* C3 amended: Right at the end of the last line of a non-empty document moves the
\* cursor to (0, document.len()), the position past the last line; Right is a
\* no-op from (0, document.len()).
C3_RightStopsPastLastLine ==
    /\ RightAtEndOfLastLine => cursor_position = Position(0, DocumentLen)
    /\ (pressed_key = "Right" /\ entry.cursor = Position(0, DocumentLen))
           => cursor_position = entry.cursor

\* Right has been pressed at the end of a last line that is not empty
C3_Witness ==
    /\ RightAtEndOfLastLine
    /\ entry.cursor.x > 0
    /\ cursor_position = Position(0, DocumentLen)

\* C4 as stated: Left at (0,0) leaves the cursor at (0,0) and the offset unchanged,
\* whatever the document (and the terminal).
C4_LeftNoOpAtOrigin ==
    (pressed_key = "Left" /\ entry.cursor = PositionDefault) =>
        /\ cursor_position = PositionDefault
        /\ offset = entry.offset

\* C4 amended: Left at (0,0) leaves the cursor at (0,0), and leaves the offset
\* unchanged when the terminal is at least 1x1.
C4_LeftNoOpAtOriginVisible ==
    (pressed_key = "Left" /\ entry.cursor = PositionDefault) =>
        /\ cursor_position = PositionDefault
        /\ (terminal.width >= 1 /\ terminal.height >= 1) => offset = entry.offset

\* Left has been pressed at the origin of a document whose first line is not empty
C4_Witness ==
    /\ pressed_key = "Left"
    /\ entry.cursor = PositionDefault
    /\ RowWidth(0) > 0
    /\ terminal.width >= 1 /\ terminal.height >= 1
    /\ offset = entry.offset

\* C5: Right at the end of a line that is not the last (x = width(y), y < len - 1)
\* yields (0, y + 1); Right with x < width(y) yields (x + 1, y).
C5_RightWraps ==
    pressed_key = "Right" =>
        /\ (entry.cursor.x = RowWidth(entry.cursor.y) /\ entry.cursor.y < DocumentLen - 1)
               => cursor_position = Position(0, entry.cursor.y + 1)
        /\ entry.cursor.x < RowWidth(entry.cursor.y)
               => cursor_position = Position(entry.cursor.x + 1, entry.cursor.y)

\* Right has wrapped from the end of a non-empty line onto a non-empty next line
C5_Witness ==
    /\ pressed_key = "Right"
    /\ entry.cursor.x = RowWidth(entry.cursor.y)
    /\ entry.cursor.x > 0
    /\ entry.cursor.y < DocumentLen - 1
    /\ RowWidth(entry.cursor.y + 1) > 0
    /\ cursor_position = Position(0, entry.cursor.y + 1)

\* a step of process_keypress that read a key
KeyStep == pc = "process_keypress" /\ pc' = "refresh_screen"

\* C6: the editor starts Running; it becomes Quitting only in a step that read
\* Ctrl-Q; a step that read any other key leaves it Running; once Quitting it
\* never returns to Running.
C6_QuitStateMachine ==
    /\ should_quit = FALSE
    /\ [][/\ (~should_quit /\ should_quit') => (KeyStep /\ pressed_key' = "CtrlQ")
          /\ (KeyStep /\ pressed_key' # "CtrlQ") => should_quit' = should_quit
          /\ should_quit => should_quit']_vars

\* Ctrl-Q has been read after the cursor had moved
C6_Witness ==
    /\ should_quit
    /\ pressed_key = "CtrlQ"
    /\ entry.cursor # PositionDefault

FarewellFrame ==
    /\ frame.farewell
    /\ frame.cleared
    /\ frame.rows = <<>>
    /\ ~frame.status_bar

\* C7: once Ctrl-Q is read no key is read again, exactly one more frame is
\* rendered, it is the farewell frame, and the loop then stops; before that every
\* iteration renders, then reads a key, interprets it and rescrolls on the
\* interpreted cursor.
C7_TerminationOnQuit ==
    /\ [](should_quit => pc \in {"refresh_screen", "exited", "died"})
    /\ [](should_quit /\ pc = "refresh_screen" => frames_in_quit = 0)
    /\ [](pc = "exited" => should_quit /\ frames_in_quit = 1 /\ FarewellFrame)
    /\ [](should_quit /\ pc = "died" => frames_in_quit = 1 /\ frame.farewell)
    /\ [][/\ should_quit => UNCHANGED <<pressed_key, entry, cursor_position, offset>>
          /\ (should_quit /\ pc = "refresh_screen") => pc' \in {"exited", "died"}
          /\ pc \in {"exited", "died"} => UNCHANGED vars
          /\ (~should_quit /\ pc = "refresh_screen")
                => /\ \/ pc' = "died"
                      \/ /\ pc' = "process_keypress"
                         /\ frame'.rows = draw_rows /\ ~frame'.farewell
                   /\ UNCHANGED <<pressed_key, cursor_position, offset>>
          /\ pc = "process_keypress"
                => \/ pc' = "died"
                   \/ /\ pc' = "refresh_screen"
                      /\ cursor_position' = Interpreted(pressed_key')
                      /\ offset' = scroll(cursor_position', offset)
                      /\ UNCHANGED frame]_vars

\* the loop has stopped after the farewell frame, some keys after the start
C7_Witness ==
    /\ pc = "exited"
    /\ FarewellFrame
    /\ frames_in_quit = 1
    /\ entry.cursor # PositionDefault

\* C8: when scroll runs with cursor.y >= offset.y + height the new offset.y is
\* cursor.y - height + 1; with cursor.y < offset.y it is cursor.y; likewise for x
\* with width.
C8_MinimalScrollStep ==
    KeyProcessed =>
        /\ cursor_position.y >= entry.offset.y + terminal.height
               => offset.y = cursor_position.y - terminal.height + 1
        /\ cursor_position.y < entry.offset.y => offset.y = cursor_position.y
        /\ cursor_position.x >= entry.offset.x + terminal.width
               => offset.x = cursor_position.x - terminal.width + 1
        /\ cursor_position.x < entry.offset.x => offset.x = cursor_position.x

\* the scenario of the specification: height 3, the cursor moves to line 5 with
\* offset.y = 0, and scroll sets offset.y to 3
C8_Witness ==
    /\ KeyProcessed
    /\ terminal.height = 3
    /\ cursor_position.y = 5
    /\ entry.offset.y = 0
    /\ offset.y = 3

\* C9: when the cursor after a key press is inside the window on an axis, scroll
\* leaves the offset of that axis unchanged.
C9_ScrollStability ==
    KeyProcessed =>
        /\ InWindow(cursor_position.x, entry.offset.x, terminal.width)
               => offset.x = entry.offset.x
        /\ InWindow(cursor_position.y, entry.offset.y, terminal.height)
               => offset.y = entry.offset.y

\* the cursor has moved inside a window that had scrolled on both axes
C9_Witness ==
    /\ KeyProcessed
    /\ cursor_position # entry.cursor
    /\ entry.offset.x > 0 /\ entry.offset.y > 0
    /\ InWindow(cursor_position.x, entry.offset.x, terminal.width)
    /\ InWindow(cursor_position.y, entry.offset.y, terminal.height)
    /\ offset = entry.offset

Max(a, b) == IF a > b THEN a ELSE b

\* C10: PageUp sets cursor.y to max(0, y - th) and PageDown sets it to
\* min(len, y + th), th being the terminal height (0 included); x is then clamped
\* to the new line's width.
C10_PageMotions ==
    /\ pressed_key = "PageUp" =>
        /\ cursor_position.y = Max(0, entry.cursor.y - terminal.height)
        /\ cursor_position.x = Min(entry.cursor.x, RowWidth(cursor_position.y))
    /\ pressed_key = "PageDown" =>
        /\ cursor_position.y = Min(DocumentLen, entry.cursor.y + terminal.height)
        /\ cursor_position.x = Min(entry.cursor.x, RowWidth(cursor_position.y))

\* PageDown has moved a whole page inside the document and the column was clamped
C10_Witness ==
    /\ pressed_key = "PageDown"
    /\ terminal.height >= 2
    /\ cursor_position.y = entry.cursor.y + terminal.height
    /\ cursor_position.y < DocumentLen
    /\ cursor_position.x < entry.cursor.x

\* a non-quitting frame has just been flushed and is on the screen
FrameShown == pc = "process_keypress"

\* the characters of `line` at the columns from..to-1 that the line has
Clip(line, from, to) ==
    [i \in 1..Max(0, Min(to, Len(line)) - from) |-> line[from + i]]

\* C11: in every non-quitting frame each terminal row r in [0, height) shows
\* document line offset.y + r clipped to the columns [offset.x, offset.x + width)
\* when that line exists, and the banner or the continuation marker otherwise, so
\* no line outside [offset.y, offset.y + height) is drawn.
C11_FrameContent ==
    FrameShown =>
        /\ DOMAIN frame.rows = 1..terminal.height
        /\ \A r \in 0..(terminal.height - 1) :
              IF offset.y + r < DocumentLen
              THEN frame.rows[r + 1] =
                       [kind |-> "row",
                        text |-> Clip(document[offset.y + r + 1], offset.x,
                                      offset.x + terminal.width)]
              ELSE frame.rows[r + 1].kind \in {"welcome", "tilde"}

\* a frame shows the second letter of a line, scrolled on both axes
C11_Witness ==
    /\ FrameShown
    /\ offset.x > 0 /\ offset.y > 0
    /\ \E r \in DOMAIN frame.rows :
          frame.rows[r] = [kind |-> "row", text |-> <<"b">>]

\* the rows of the frame that show the welcome banner
BannerRows == {r \in DOMAIN frame.rows : frame.rows[r].kind = "welcome"}

\* C12: in every non-quitting frame of a terminal of height >= 1, an empty
\* document shows the welcome banner exactly once, at row index height / 3, and
\* a non-empty document never shows it.
C12_WelcomeBanner ==
    (FrameShown /\ terminal.height >= 1) =>
        BannerRows = IF DocumentIsEmpty THEN {(terminal.height \div 3) + 1} ELSE {}

\* the banner is on the second row of a terminal of height 3
C12_Witness ==
    /\ FrameShown
    /\ DocumentIsEmpty
    /\ terminal.height = 3
    /\ BannerRows = {2}

\* C13: with a path argument whose read fails the editor has the empty default
\* Document, and starts Running in the loop with cursor (0,0) and offset (0,0),
\* as with no argument; the error ends nothing.
C13_LoadErrorRecovery ==
    args = "unreadable" =>
        /\ document = DocumentDefault.rows
        /\ file_name = DocumentDefault.file_name
        /\ DocumentLen = 0
        /\ ~KeyProcessed =>
              /\ ~should_quit
              /\ cursor_position = PositionDefault
              /\ offset = PositionDefault
              /\ frame = NoFrame => pc = "refresh_screen"

\* the editor runs after a failed load: its first frame is shown, no key read yet
C13_Witness ==
    /\ args = "unreadable"
    /\ FrameShown
    /\ ~KeyProcessed
    /\ frame.status_bar

\* C14: an I/O error of the flush or of the key read clears the screen and ends
\* the run for good: nothing changes afterwards, and the failing step changes
\* neither the cursor, the offset nor the quit flag.
C14_FatalIo ==
    /\ [](pc = "died" => frame.cleared /\ frame.rows = <<>> /\ ~frame.status_bar)
    /\ [][/\ pc = "died" => UNCHANGED vars
          /\ pc' = "died" =>
                UNCHANGED <<cursor_position, offset, should_quit, pressed_key, entry>>]_vars

\* the run died in an iteration after some key had moved the cursor
C14_Witness ==
    /\ pc = "died"
    /\ frame.cleared
    /\ ~should_quit
    /\ cursor_position # PositionDefault

\* C15: render(start, end) returns the characters of the line at the columns
\* [start, min(end, length)), and the empty string when start >= length or
\* end <= start.
C15_RenderClamps ==
    probe.op = "render" =>
        /\ probe.out = Clip(probe.line, probe.start, probe.end)
        /\ (probe.start >= Len(probe.line) \/ probe.end <= probe.start)
               => probe.out = <<>>

\* a render from inside the line to beyond its end returned its tail
C15_Witness ==
    /\ probe.op = "render"
    /\ probe.start > 0
    /\ probe.end > Len(probe.line)
    /\ probe.out = <<"b">>

\* the segments of `s` between its "\n" characters
RECURSIVE Segments(_)
Segments(s) ==
    LET n == FirstNewline(s, 1)
    IN  IF n > Len(s) THEN <<s>>
        ELSE <<SubSeq(s, 1, n - 1)>> \o Segments(SubSeq(s, n + 1, Len(s)))

\* the newline-separated lines a text consists of (none for the empty text)
NewlineSeparated(s) == IF s = <<>> THEN <<>> ELSE Segments(s)

\* the opened document has exactly the rows `lines`, in order, and none beyond
RowsAre(lines) ==
    /\ DocumentLen = Len(lines)
    /\ \A i \in 0..(Len(lines) - 1) : DocumentRow(i) = <<lines[i + 1]>>
    /\ \A i \in Len(lines)..(Len(lines) + 1) : DocumentRow(i) = <<>>

\* C16 as stated: a Document opened from a text of n newline-separated lines has
\* len() = n, row(i) the i-th line for i < n, and row(i) absent for i >= n.
C16_DocumentLookup ==
    probe.op = "open" => RowsAre(NewlineSeparated(probe.contents))

EndsWithCr(line) == line # <<>> /\ line[Len(line)] = "\r"

\* C16 amended: the same, for a text whose last line is not empty and none of
\* whose lines ends with a carriage return.
C16_DocumentLookupTerminated ==
    LET lines == NewlineSeparated(probe.contents)
    IN  (/\ probe.op = "open"
         /\ lines # <<>> => lines[Len(lines)] # <<>>
         /\ \A i \in DOMAIN lines : ~EndsWithCr(lines[i]))
            => RowsAre(lines)

\* a text of two different lines was opened
C16_Witness ==
    /\ probe.op = "open"
    /\ probe.contents = <<"a", "\n", "b">>
    /\ DocumentLen = 2
    /\ DocumentRow(0) = <<(<<"a">>)>>
    /\ DocumentRow(1) = <<(<<"b">>)>>
    /\ DocumentRow(2) = <<>>

\* C17 as stated: a key that is neither a motion key nor the quit chord leaves
\* cursor, offset and quit flag unchanged, the quit chord leaves cursor and offset
\* unchanged, and the offset changes only when a motion changed the cursor.
C17_OnlyMotionsChange ==
    /\ pressed_key = "Other" =>
          cursor_position = entry.cursor /\ offset = entry.offset /\ ~should_quit
    /\ pressed_key = "CtrlQ" =>
          cursor_position = entry.cursor /\ offset = entry.offset
    /\ (KeyProcessed /\ offset # entry.offset) =>
          pressed_key \in MotionKeys /\ cursor_position # entry.cursor

\* C17 amended: the same, the statements about the offset holding for a terminal
\* of width >= 1 and height >= 1.
C17_OnlyMotionsChangeVisible ==
    LET visible == terminal.width >= 1 /\ terminal.height >= 1
    IN  /\ pressed_key = "Other" =>
              /\ cursor_position = entry.cursor
              /\ ~should_quit
              /\ visible => offset = entry.offset
        /\ pressed_key = "CtrlQ" =>
              /\ cursor_position = entry.cursor
              /\ visible => offset = entry.offset
        /\ (KeyProcessed /\ visible /\ offset # entry.offset) =>
              pressed_key \in MotionKeys /\ cursor_position # entry.cursor

\* another key was read with the window scrolled down, and nothing moved
C17_Witness ==
    /\ pressed_key = "Other"
    /\ terminal.width >= 1 /\ terminal.height >= 1
    /\ entry.offset.y > 0
    /\ cursor_position = entry.cursor
    /\ offset = entry.offset

\* C18: when Right has changed the cursor a following Left restores it, and when
\* Left has changed the cursor a following Right restores it; Left from (0, y)
\* with y > 0 lands on (width(y - 1), y - 1).
C18_LeftRightInverse ==
    /\ []((pressed_key = "Left" /\ entry.cursor.x = 0 /\ entry.cursor.y > 0) =>
             cursor_position = Position(RowWidth(entry.cursor.y - 1), entry.cursor.y - 1))
    /\ [][(/\ KeyStep
           /\ cursor_position # entry.cursor
           /\ \/ pressed_key = "Right" /\ pressed_key' = "Left"
              \/ pressed_key = "Left" /\ pressed_key' = "Right")
             => cursor_position' = entry.cursor]_vars

\* Left has wrapped from the start of a line to the end of a non-empty line
C18_Witness ==
    /\ pressed_key = "Left"
    /\ entry.cursor.x = 0
    /\ entry.cursor.y > 0
    /\ cursor_position.x > 0
    /\ cursor_position.y = entry.cursor.y - 1

\* C19: at every non-quitting render of a terminal of at least 1x1 the cursor is
\* not before the offset on either axis, and the physical cursor is placed at
\* (cursor.x - offset.x, cursor.y - offset.y), inside [0, width) x [0, height).
C19_PhysicalCursorOnScreen ==
    (FrameShown /\ terminal.width >= 1 /\ terminal.height >= 1) =>
        /\ cursor_position.x >= offset.x
        /\ cursor_position.y >= offset.y
        /\ frame.cursor = Position(cursor_position.x - offset.x,
                                   cursor_position.y - offset.y)
        /\ frame.cursor.x < terminal.width
        /\ frame.cursor.y < terminal.height

\* a frame of a window scrolled on both axes puts the cursor away from its corner
C19_Witness ==
    /\ FrameShown
    /\ terminal.width >= 1 /\ terminal.height >= 1
    /\ offset.x > 0 /\ offset.y > 0
    /\ frame.cursor.x > 0

\* C20: with an empty document and a terminal of at least 1x1 the cursor and the
\* offset stay (0,0) whatever keys are read.
C20_EmptyDocumentPins ==
    (DocumentIsEmpty /\ terminal.width >= 1 /\ terminal.height >= 1) =>
        cursor_position = PositionDefault /\ offset = PositionDefault

\* Down was read on an empty document and the cursor stayed
C20_Witness ==
    /\ DocumentIsEmpty
    /\ terminal.width >= 1 /\ terminal.height >= 1
    /\ pressed_key = "Down"
    /\ entry.cursor = PositionDefault
    /\ cursor_position = PositionDefault

====
